---- MODULE Spec2Model ----
(***************************************************************************)
(* Olimpia MQTT IR bridge (ESP32 sketch "Olimpia IR Bridge.ino").          *)
(*                                                                         *)
(* The sketch is a single cooperative thread: setup() runs once, loop()    *)
(* runs forever.  The model follows the thread's position (pc) through one *)
(* loop() iteration and through the blocking handlers it calls (a single   *)
(* IR command, the restore macro).  The environment (WiFi link, MQTT       *)
(* session, button pin) changes only while the thread is suspended in      *)
(* delay()/yield(): the clock advances only there.                         *)
(***************************************************************************)
EXTENDS Integers, Sequences, FiniteSets, TLC

(***************************************************************************)
(* Compile-time configuration (config.h part of secrets.example.h) and the *)
(* sketch's own constants.                                                 *)
(***************************************************************************)
BOOT_DELAY_MS == 15000

MANUAL_DELAY_MS == 500

TEMP_STEPS_TO_45 == 20

IR_GAP_MS == 180

DEBOUNCE_MS == 80

WIFI_RETRY_MS == 5000

MQTT_RETRY_MS == 3000

\* delay(200) at the top of setup(): millis() when setup() reads the clock
SETUP_DELAY_MS == 200

\* delay(50) between the two NEC frames of sendNEC
NEC_REPEAT_MS == 50

\* delay(5) granule of waitMsWithYield
WAIT_STEP_MS == 5

\* delay(1) at the end of sendCmd, of the macro's temp-up loop body and of loop()
YIELD_MS == 1

\* NEC 32-bit codes: 0xFF807F, 0xFF00FF, 0xFF20DF, 0xFF30CF, 0xFFB04F, 0xFF906F, 0xFF10EF
IR_POWER_TOGGLE == 16744575

IR_POWER_LEVEL == 16711935

IR_OSCILLATION_TOGGLE == 16720095

IR_SLEEP_TIMER == 16724175

IR_TEMP_MODE == 16756815

IR_TEMP_UP == 16748655

IR_TEMP_DOWN == 16715975

(***************************************************************************)
(* Bounds of the model.                                                    *)
(***************************************************************************)
\* loop() goes on to a next iteration only while millis() <= MaxTime
MaxTime == 20600

\* environment events (link up/down, session loss, button pin change, command
\* payload arriving)
MaxEnv == 2

\* of these, command payloads delivered by mqtt.loop()
MaxMsgs == 1

\* a loop() iteration that meets no deadline takes IdleMs
IdleMs == 8000

(***************************************************************************)
(* millis() and the timestamps are uint32_t.  millis() wraps after 2^32 ms *)
(* (49.7 days); every clock value here is below MaxTime plus one macro run *)
(* and every stored timestamp is a past clock reading, so no sum wraps and *)
(* no difference underflows.                                               *)
(***************************************************************************)
Add32(a, b) == a + b

Sub32(a, b) == a - b

(***************************************************************************)
(* esp_reset_reason_t and its names                                        *)
(***************************************************************************)
ResetReasons == {"ESP_RST_UNKNOWN", "ESP_RST_POWERON", "ESP_RST_EXT", "ESP_RST_SW",
                 "ESP_RST_PANIC", "ESP_RST_INT_WDT", "ESP_RST_TASK_WDT", "ESP_RST_WDT",
                 "ESP_RST_DEEPSLEEP", "ESP_RST_BROWNOUT"}

resetReasonToString(r) ==
  CASE r = "ESP_RST_POWERON"   -> "POWERON"
    [] r = "ESP_RST_BROWNOUT"  -> "BROWNOUT"
    [] r = "ESP_RST_EXT"       -> "EXT_RESET(EN)"
    [] r = "ESP_RST_SW"        -> "SW_RESET"
    [] r = "ESP_RST_PANIC"     -> "PANIC"
    [] r = "ESP_RST_INT_WDT"   -> "INT_WDT"
    [] r = "ESP_RST_TASK_WDT"  -> "TASK_WDT"
    [] r = "ESP_RST_WDT"       -> "OTHER_WDT"
    [] r = "ESP_RST_DEEPSLEEP" -> "DEEPSLEEP"
    [] OTHER                   -> "UNKNOWN"

shouldRunRestoreOnBoot_NoBrownout(r) == r = "ESP_RST_POWERON"

shouldRunRestoreOnBoot(r) == (r = "ESP_RST_POWERON") \/ (r = "ESP_RST_BROWNOUT")

(***************************************************************************)
(* Arduino String, as a sequence of characters (one-character strings)     *)
(***************************************************************************)
UpperChars == <<"A", "B", "C", "D", "E", "F", "G", "H", "I", "J", "K", "L", "M",
                "N", "O", "P", "Q", "R", "S", "T", "U", "V", "W", "X", "Y", "Z">>

LowerChars == <<"a", "b", "c", "d", "e", "f", "g", "h", "i", "j", "k", "l", "m",
                "n", "o", "p", "q", "r", "s", "t", "u", "v", "w", "x", "y", "z">>

\* isspace() of the C locale, as used by String::trim
isspace(c) == c \in {" ", "\t", "\n", "\r", "\f"}

\* tolower() of the C locale, as used by String::toLowerCase
tolower(c) ==
  IF \E i \in 1..Len(UpperChars) : UpperChars[i] = c
  THEN LowerChars[CHOOSE i \in 1..Len(UpperChars) : UpperChars[i] = c]
  ELSE c

RECURSIVE TrimLeft(_)
TrimLeft(s) == IF s /= <<>> /\ isspace(Head(s)) THEN TrimLeft(Tail(s)) ELSE s

RECURSIVE TrimRight(_)
TrimRight(s) ==
  IF s /= <<>> /\ isspace(s[Len(s)]) THEN TrimRight(SubSeq(s, 1, Len(s) - 1)) ELSE s

\* String::trim(): drop the leading, then the trailing whitespace
trim(s) == TrimRight(TrimLeft(s))

\* String::toLowerCase()
toLowerCase(s) == [i \in 1..Len(s) |-> tolower(s[i])]

(***************************************************************************)
(* The command tokens handleCommand compares with                          *)
(***************************************************************************)
S_power_toggle == <<"p", "o", "w", "e", "r", "_", "t", "o", "g", "g", "l", "e">>

S_power_level == <<"p", "o", "w", "e", "r", "_", "l", "e", "v", "e", "l">>

S_oscillation_toggle == <<"o", "s", "c", "i", "l", "l", "a", "t", "i", "o", "n", "_", "t", "o", "g", "g", "l", "e">>

S_sleep_timer == <<"s", "l", "e", "e", "p", "_", "t", "i", "m", "e", "r">>

S_temp_mode == <<"t", "e", "m", "p", "_", "m", "o", "d", "e">>

S_temp_up == <<"t", "e", "m", "p", "_", "u", "p">>

S_temp_down == <<"t", "e", "m", "p", "_", "d", "o", "w", "n">>

S_restore_state == <<"r", "e", "s", "t", "o", "r", "e", "_", "s", "t", "a", "t", "e">>

(***************************************************************************)
(* handleCommand: the if/else-if chain, as the action it selects           *)
(***************************************************************************)
SendOf(code, tag) == [kind |-> "send", code |-> code, tag |-> tag]

handleCommand_SwappedTemp(cmd) ==
  IF cmd = S_power_toggle THEN SendOf(IR_POWER_TOGGLE, "power_toggle")
  ELSE IF cmd = S_power_level THEN SendOf(IR_POWER_LEVEL, "power_level")
  ELSE IF cmd = S_oscillation_toggle THEN SendOf(IR_OSCILLATION_TOGGLE, "oscillation_toggle")
  ELSE IF cmd = S_sleep_timer THEN SendOf(IR_SLEEP_TIMER, "sleep_timer")
  ELSE IF cmd = S_temp_mode THEN SendOf(IR_TEMP_MODE, "temp_mode")
  ELSE IF cmd = S_temp_up THEN SendOf(IR_TEMP_DOWN, "temp_up")
  ELSE IF cmd = S_temp_down THEN SendOf(IR_TEMP_UP, "temp_down")
  ELSE IF cmd = S_restore_state THEN [kind |-> "macro", code |-> 0, tag |-> "mqtt"]
  ELSE [kind |-> "unknown", code |-> 0, tag |-> ""]

handleCommand_PrefixMatch(cmd) ==
  IF cmd = S_power_toggle THEN SendOf(IR_POWER_TOGGLE, "power_toggle")
  ELSE IF cmd = S_power_level THEN SendOf(IR_POWER_LEVEL, "power_level")
  ELSE IF cmd = S_oscillation_toggle THEN SendOf(IR_OSCILLATION_TOGGLE, "oscillation_toggle")
  ELSE IF cmd = S_sleep_timer THEN SendOf(IR_SLEEP_TIMER, "sleep_timer")
  ELSE IF cmd = S_temp_mode THEN SendOf(IR_TEMP_MODE, "temp_mode")
  ELSE IF Len(cmd) >= Len(S_temp_up) /\ SubSeq(cmd, 1, Len(S_temp_up)) = S_temp_up
       THEN SendOf(IR_TEMP_UP, "temp_up")
  ELSE IF cmd = S_temp_down THEN SendOf(IR_TEMP_DOWN, "temp_down")
  ELSE IF cmd = S_restore_state THEN [kind |-> "macro", code |-> 0, tag |-> "mqtt"]
  ELSE [kind |-> "unknown", code |-> 0, tag |-> ""]

handleCommand(cmd) ==
  IF cmd = S_power_toggle THEN SendOf(IR_POWER_TOGGLE, "power_toggle")
  ELSE IF cmd = S_power_level THEN SendOf(IR_POWER_LEVEL, "power_level")
  ELSE IF cmd = S_oscillation_toggle THEN SendOf(IR_OSCILLATION_TOGGLE, "oscillation_toggle")
  ELSE IF cmd = S_sleep_timer THEN SendOf(IR_SLEEP_TIMER, "sleep_timer")
  ELSE IF cmd = S_temp_mode THEN SendOf(IR_TEMP_MODE, "temp_mode")
  ELSE IF cmd = S_temp_up THEN SendOf(IR_TEMP_UP, "temp_up")
  ELSE IF cmd = S_temp_down THEN SendOf(IR_TEMP_DOWN, "temp_down")
  ELSE IF cmd = S_restore_state THEN [kind |-> "macro", code |-> 0, tag |-> "mqtt"]
  ELSE [kind |-> "unknown", code |-> 0, tag |-> ""]

\* mqttCallback: the payload bytes as a String, trimmed, then lower-cased
mqttCallback_NoTrim(payload) == toLowerCase(payload)

mqttCallback(payload) == toLowerCase(trim(payload))

(***************************************************************************)
(* restoreTo45AndOff: the i-th sendCmd of the macro, i = 1 .. MacroLen     *)
(***************************************************************************)
MacroLen_OffByOne == TEMP_STEPS_TO_45 + 2

MacroLen == TEMP_STEPS_TO_45 + 3

MacroStep_NoFinalOff(i) ==
  IF i = 1 THEN SendOf(IR_POWER_TOGGLE, "power_toggle_on")
  ELSE IF i = 2 THEN SendOf(IR_TEMP_MODE, "temp_mode")
  ELSE SendOf(IR_TEMP_UP, "temp_up")

MacroStep(i) ==
  IF i = 1 THEN SendOf(IR_POWER_TOGGLE, "power_toggle_on")
  ELSE IF i = 2 THEN SendOf(IR_TEMP_MODE, "temp_mode")
  ELSE IF i <= 2 + TEMP_STEPS_TO_45 THEN SendOf(IR_TEMP_UP, "temp_up")
  ELSE SendOf(IR_POWER_TOGGLE, "power_toggle_off")

\* waitMsWithYield(ms): delay(5) until millis() - start >= ms
waitMsWithYield(ms) == ((ms + WAIT_STEP_MS - 1) \div WAIT_STEP_MS) * WAIT_STEP_MS

(***************************************************************************)
(* publishAllDiscovery: the object ids of the nine retained descriptors    *)
(***************************************************************************)
DiscoveryIds == <<"olimpia_ir_status_01", "ir_btn_power_toggle_01", "ir_btn_power_level_01",
                  "ir_btn_osc_toggle_01", "ir_btn_sleep_timer_01", "ir_btn_temp_mode_01",
                  "ir_btn_temp_up_01", "ir_btn_temp_down_01", "ir_btn_restore_45_off_01">>

(***************************************************************************)
(* Payloads the command topic delivers in the model                        *)
(***************************************************************************)
Tokens == {S_power_toggle, S_power_level, S_oscillation_toggle, S_sleep_timer,
           S_temp_mode, S_temp_up, S_temp_down, S_restore_state}

Payloads ==
  Tokens \cup
  { <<" ", " ", "T", "e", "m", "p", "_", "U", "p", " ", " ">>,
    <<"P", "o", "w", "e", "r", "_", "T", "o", "g", "g", "l", "e">>,
    <<"\t", "R", "E", "S", "T", "O", "R", "E", "_", "S", "T", "A", "T", "E", "\n">>,
    <<" ", "t", "e", "m", "p", "_", "D", "O", "W", "N">>,
    <<>>,
    <<" ", " ">>,
    <<"f", "r", "o", "b", "n", "i", "c", "a", "t", "e">>,
    <<"t", "e", "m", "p", " ", "u", "p">>,
    <<"t", "e", "m", "p", "_", "u", "p", "x">>,
    <<"t", "e", "m", "p">> }

(***************************************************************************)
(* State                                                                   *)
(***************************************************************************)
VARIABLES
  resetReason,           \* esp_reset_reason() of this boot
  now,                   \* millis()
  link,                  \* WiFi.status() == WL_CONNECTED
  wifiBegun,             \* WiFi.begin() has been called
  session,               \* mqtt.connected()
  btnLevel,              \* digitalRead(PIN_BTN_RESTORE): TRUE = HIGH (idle)
  pc,                    \* position of the thread
  ret,                   \* where the running handler returns to
  macroTag,              \* triggerTag of the running macro, "none" when idle
  preDelayMs,            \* preDelayMs of the running macro
  mi,                    \* index of the macro's current sendCmd
  inMsg,                 \* <<payload>> while mqttCallback handles it, else <<>>
  lastBtnState,
  lastBtnChangeMs,
  lastWifiAttemptMs,
  lastMqttAttemptMs,
  discoveryPublished,
  otaStarted,
  bootRestoreScheduled,
  bootRestoreAtMs,
  irLog,                 \* codes handed to sendNEC by the running handler
  pubLog,                \* publish calls of the running handler / last step
  lastRes,               \* outcome of the last of them: "ok", "skip" (not connected,
                         \* guarded), "fail" (not connected, unguarded), else "none"
  discLog,               \* descriptors published since the last successful connect
  sincePub,              \* session history since the last discovery publication
  sessionNo,             \* successful mqtt.connect calls of this boot
  bootArmedAt,           \* millis() when setup() armed the boot trigger
  bootRuns,              \* boot-triggered macro runs of this boot
  envLeft,               \* environment events left
  msgLeft,               \* command payloads left
  btnHold,               \* how long the pin has been at btnLevel, up to DEBOUNCE_MS
  pressRuns,             \* button macros started for the current (or last) press of the pin
  wifiTryAt,             \* millis() at the last WiFi.begin call, -1 before the first
  mqttTryAt,             \* millis() at the last mqtt.connect call, -1 before the first
  otaStarts,             \* setupOTA() calls of this boot
  otaServiced,           \* ArduinoOTA.handle() has been called in this loop() iteration
  linkEverUp,            \* the link has been up at some time in this boot
  sessLog,               \* calls made since the last successful mqtt.connect, in order
  sendFailed,            \* positions in pubLog of the last step's calls whose mqtt.publish returned false
  emitted                \* calls in pubLog that passed the mqtt.connected() guard and reached mqtt.publish

vars == <<resetReason, now, link, wifiBegun, session, btnLevel, pc, ret, macroTag,
          preDelayMs, mi, inMsg, lastBtnState, lastBtnChangeMs, lastWifiAttemptMs,
          lastMqttAttemptMs, discoveryPublished, otaStarted, bootRestoreScheduled,
          bootRestoreAtMs, irLog, pubLog, lastRes, discLog, sincePub, sessionNo,
          bootArmedAt, bootRuns, envLeft, msgLeft, btnHold, pressRuns, wifiTryAt, mqttTryAt, otaStarts, otaServiced, linkEverUp, sessLog, sendFailed, emitted>>

\* the program's own statics
progVars == <<lastBtnState, lastBtnChangeMs, lastWifiAttemptMs, lastMqttAttemptMs,
              discoveryPublished, otaStarted, bootRestoreScheduled, bootRestoreAtMs>>

envVars == <<resetReason, link, session, btnLevel>>

handlerVars == <<ret, macroTag, preDelayMs, mi, inMsg, irLog>>

\* positions where the thread is suspended in delay()/yield() before it next reads
\* the environment: the end of loop(), the delays of sendCmd before its
\* publishStatus (m_send also covers the macro's pre-delay: nothing reads the
\* environment between the two), the delay(1) before restore:done
SuspendPoints == {"delay", "m_send", "m_done", "c_gap"}

\* the pin's hold time when the clock reads t
Held(t) == IF btnHold + Sub32(t, now) >= DEBOUNCE_MS THEN DEBOUNCE_MS
           ELSE btnHold + Sub32(t, now)

(***************************************************************************)
(* MQTT helpers                                                            *)
(***************************************************************************)
\* mqtt.publish behind the mqtt.connected() guard of publishStatus / setAvailability
GuardedResult_NoGuard(conn) == "ok"

GuardedResult(conn) == IF conn THEN "ok" ELSE "skip"

\* how many of the publishStatus / setAvailability calls in log reach mqtt.publish
Passed(log, conn) ==
  IF GuardedResult(conn) = "ok"
  THEN Cardinality({i \in 1..Len(log) : log[i].topic \in {"status", "availability"}})
  ELSE 0

\* bool ok = mqtt.publish(...): which of the guarded calls at positions first..last of
\* the log return false: none, any one of them, or all of them
Failures(first, last, conn) ==
  IF conn THEN {{}} \cup {{i} : i \in first..last} \cup {first..last} ELSE {{}}

\* the same for publishAllDiscovery and the two status calls after it: the nine
\* descriptors go through mqttPublish, which has no connected() guard, so that
\* with the session down each of their mqtt.publish calls returns false
DiscoveryFailures(n, last, conn) ==
  IF conn THEN Failures(1, last, TRUE) ELSE {1..n}

\* publishStatus(msg): the call, on the status topic
publishStatus(log, msg) == Append(log, [topic |-> "status", msg |-> msg])

\* setAvailability(state): the call, on the availability topic
setAvailability(log, state) == Append(log, [topic |-> "availability", msg |-> state])

\* mqtt.subscribe(topic): the call
mqttSubscribe(log, topic) == Append(log, [topic |-> "subscribe", msg |-> topic])

\* what sessLog records besides the calls above: a payload handed to mqttCallback,
\* a macro started by the boot check or the button
Note(log, what, arg) ==
  IF sessionNo > 0 THEN Append(log, [topic |-> what, msg |-> arg]) ELSE log

\* mqttPublish(topic, payload)
mqttPublish(log, topic, payload) == Append(log, [topic |-> topic, msg |-> payload])

RECURSIVE publishDescriptors(_, _)
publishDescriptors(log, ids) ==
  IF ids = <<>> THEN log
  ELSE publishDescriptors(mqttPublish(log, "discovery", Head(ids)), Tail(ids))

\* publishAllDiscovery with the status event first
publishAllDiscovery_StatusFirst(log) ==
  publishDescriptors(publishStatus(log, "discovery:published"), DiscoveryIds)

\* publishAllDiscovery: the status sensor, the eight buttons, then the status event
publishAllDiscovery(log) ==
  publishStatus(publishDescriptors(log, DiscoveryIds), "discovery:published")

(***************************************************************************)
(* Init: the statics as initialised, before setup()                        *)
(***************************************************************************)
InitStatics ==
  /\ now = 0
  /\ link = FALSE
  /\ wifiBegun = FALSE
  /\ session = FALSE
  /\ btnLevel = TRUE
  /\ pc = "setup"
  /\ ret = "none"
  /\ macroTag = "none"
  /\ preDelayMs = 0
  /\ mi = 0
  /\ inMsg = <<>>
  /\ lastBtnState = TRUE
  /\ lastBtnChangeMs = 0
  /\ lastWifiAttemptMs = 0
  /\ lastMqttAttemptMs = 0
  /\ discoveryPublished = FALSE
  /\ otaStarted = FALSE
  /\ bootRestoreScheduled = FALSE
  /\ bootRestoreAtMs = 0
  /\ irLog = <<>>
  /\ pubLog = <<>>
  /\ lastRes = "none"
  /\ discLog = <<>>
  /\ sincePub = "down"
  /\ sessionNo = 0
  /\ bootArmedAt = 0
  /\ bootRuns = 0
  /\ envLeft = MaxEnv
  /\ msgLeft = MaxMsgs
  /\ btnHold = 0
  /\ pressRuns = 0
  /\ wifiTryAt = -1
  /\ mqttTryAt = -1
  /\ otaStarts = 0
  /\ otaServiced = FALSE
  /\ linkEverUp = FALSE
  /\ sessLog = <<>>
  /\ sendFailed = {}
  /\ emitted = 0

\* a boot after any reset reason
InitAnyReason == InitStatics /\ resetReason \in ResetReasons

\* a boot after one reset reason of each kind: a power loss (brownout), a planned
\* reset (software reset)
Init == InitStatics /\ resetReason \in {"ESP_RST_BROWNOUT", "ESP_RST_SW"}

(***************************************************************************)
(* ensureWiFiNonBlocking, read at clock value t                            *)
(***************************************************************************)
WifiAttemptDue_NoCooldown(t) == ~link

WifiAttemptDue(t) == ~link /\ ~(Sub32(t, lastWifiAttemptMs) < WIFI_RETRY_MS)

ensureWiFiNonBlocking(t) ==
  /\ lastWifiAttemptMs' = IF WifiAttemptDue(t) THEN t ELSE lastWifiAttemptMs
  /\ wifiBegun' = (wifiBegun \/ WifiAttemptDue(t))
  /\ wifiTryAt' = IF WifiAttemptDue(t) THEN t ELSE wifiTryAt

(***************************************************************************)
(* setup()                                                                 *)
(***************************************************************************)
Setup ==
  /\ pc = "setup"
  /\ now' = Add32(now, SETUP_DELAY_MS)
  /\ IF shouldRunRestoreOnBoot(resetReason)
     THEN /\ bootRestoreScheduled' = TRUE
          /\ bootRestoreAtMs' = Add32(now', BOOT_DELAY_MS)
     ELSE UNCHANGED <<bootRestoreScheduled, bootRestoreAtMs>>
  /\ bootArmedAt' = now'
  /\ ensureWiFiNonBlocking(now')
  /\ pc' = "wifi"
  /\ UNCHANGED <<envVars, handlerVars, lastBtnState, lastBtnChangeMs, lastMqttAttemptMs,
                 discoveryPublished, otaStarted, pubLog, lastRes, discLog, sincePub, sessionNo, bootRuns,
                 envLeft, msgLeft>>
  /\ btnHold' = Held(now')
  /\ UNCHANGED pressRuns
  /\ UNCHANGED mqttTryAt
  /\ UNCHANGED otaStarts
  /\ UNCHANGED otaServiced
  /\ UNCHANGED linkEverUp
  /\ UNCHANGED sessLog
  /\ UNCHANGED sendFailed
  /\ UNCHANGED emitted

(***************************************************************************)
(* loop(): one action per sub-step                                         *)
(***************************************************************************)
LoopWifi ==
  /\ pc = "wifi"
  /\ UNCHANGED btnHold
  /\ ensureWiFiNonBlocking(now)
  /\ pc' = "ota"
  /\ pubLog' = <<>>
  /\ lastRes' = "none"
  /\ UNCHANGED <<envVars, now, handlerVars, lastBtnState, lastBtnChangeMs,
                 lastMqttAttemptMs, discoveryPublished, otaStarted, bootRestoreScheduled,
                 bootRestoreAtMs, discLog, sincePub, sessionNo, bootArmedAt, bootRuns, envLeft,
                 msgLeft>>
  /\ UNCHANGED pressRuns
  /\ UNCHANGED mqttTryAt
  /\ UNCHANGED otaStarts
  /\ UNCHANGED otaServiced
  /\ UNCHANGED linkEverUp
  /\ UNCHANGED sessLog
  /\ sendFailed' = {}
  /\ emitted' = 0

\* WiFi.status() == WL_CONNECTED && !otaStarted
OtaStartDue_NoFlag == link

OtaStartDue == link /\ ~otaStarted

\* start OTA once WiFi is connected; ArduinoOTA.handle() once started
LoopOta ==
  /\ pc = "ota"
  /\ UNCHANGED btnHold
  /\ otaStarted' = (otaStarted \/ OtaStartDue)
  /\ otaStarts' = IF OtaStartDue THEN otaStarts + 1 ELSE otaStarts
  /\ otaServiced' = otaStarted'
  /\ pc' = "mqtt"
  /\ UNCHANGED <<envVars, now, wifiBegun, handlerVars, lastBtnState, lastBtnChangeMs,
                 lastWifiAttemptMs, lastMqttAttemptMs, discoveryPublished,
                 bootRestoreScheduled, bootRestoreAtMs, pubLog, lastRes, discLog, sincePub, sessionNo,
                 bootArmedAt, bootRuns, envLeft, msgLeft>>
  /\ UNCHANGED pressRuns
  /\ UNCHANGED wifiTryAt
  /\ UNCHANGED mqttTryAt
  /\ UNCHANGED linkEverUp
  /\ UNCHANGED sessLog
  /\ UNCHANGED sendFailed
  /\ UNCHANGED emitted

MqttAttemptDue_NoLinkCheck(t) ==
  ~session /\ ~(Sub32(t, lastMqttAttemptMs) < MQTT_RETRY_MS)

MqttAttemptDue_FirstOnly(t) ==
  link /\ ~session /\ mqttTryAt < 0 /\ ~(Sub32(t, lastMqttAttemptMs) < MQTT_RETRY_MS)

MqttAttemptDue(t) ==
  link /\ ~session /\ ~(Sub32(t, lastMqttAttemptMs) < MQTT_RETRY_MS)

\* the flag's value after a successful mqtt.connect
DiscoveryFlagOnConnect_Kept == discoveryPublished

DiscoveryFlagOnConnect == FALSE

\* ensureMQTTNonBlocking: ok is the result of mqtt.connect
LoopMqtt ==
  /\ pc = "mqtt"
  /\ UNCHANGED btnHold
  /\ pc' = "sess"
  /\ IF MqttAttemptDue(now)
     THEN /\ lastMqttAttemptMs' = now
          /\ mqttTryAt' = now
          /\ \E ok \in BOOLEAN :
               IF ok
               THEN /\ session' = TRUE
                    /\ pubLog' = publishStatus(setAvailability(<<>>, "online"), "online")
                    /\ lastRes' = GuardedResult(session')
                    /\ sendFailed' \in Failures(1, Len(pubLog'), session')
                    /\ emitted' = Passed(pubLog', session')
                    /\ discoveryPublished' = DiscoveryFlagOnConnect
                    /\ discLog' = <<>>
                    /\ sincePub' = IF sincePub = "down" THEN "reconn" ELSE sincePub
                    /\ sessionNo' = sessionNo + 1
                    /\ sessLog' = publishStatus(
                                    setAvailability(mqttSubscribe(<<>>, "cmd"), "online"),
                                    "online")
               ELSE UNCHANGED <<session, pubLog, lastRes, discoveryPublished, discLog, sincePub,
                                sessionNo, sessLog, sendFailed, emitted>>
     ELSE UNCHANGED <<lastMqttAttemptMs, mqttTryAt, session, pubLog, lastRes,
                      discoveryPublished, discLog, sincePub, sessionNo, sessLog, sendFailed,
                      emitted>>
  /\ UNCHANGED <<resetReason, link, btnLevel, now, wifiBegun, handlerVars, lastBtnState,
                 lastBtnChangeMs, lastWifiAttemptMs, otaStarted, bootRestoreScheduled,
                 bootRestoreAtMs, bootArmedAt, bootRuns, envLeft, msgLeft>>
  /\ UNCHANGED pressRuns
  /\ UNCHANGED wifiTryAt
  /\ UNCHANGED otaStarts
  /\ UNCHANGED otaServiced
  /\ UNCHANGED linkEverUp

(***************************************************************************)
(* restoreTo45AndOff(triggerTag, preDelayMs), entered from position pc,    *)
(* returning to r; log holds what the caller published just before         *)
(***************************************************************************)
restoreTo45AndOff(tag, pre, r, log) ==
  /\ macroTag' = tag
  /\ preDelayMs' = pre
  /\ mi' = 1
  /\ ret' = r
  /\ irLog' = <<>>
  /\ pubLog' = publishStatus(log, "restore:start:" \o tag)
  /\ lastRes' = GuardedResult(session)
  /\ sendFailed' \in Failures(1, Len(pubLog'), session)
  /\ emitted' = Passed(pubLog', session)
  /\ pc' = IF pre > 0 THEN "m_pre" ELSE "m_send"

\* if (mqtt.connected()) { mqtt.loop(); ... }: mqtt.loop() delivers at most one payload
LoopSess ==
  /\ pc = "sess"
  /\ \/ /\ ~session
        /\ pc' = "boot"
        /\ pubLog' = <<>>
        /\ lastRes' = "none"
        /\ sendFailed' = {}
        /\ emitted' = 0
        /\ UNCHANGED <<now, handlerVars, msgLeft, envLeft, sessLog>>
     \/ /\ session
        /\ pc' = "disc"
        /\ pubLog' = <<>>
        /\ lastRes' = "none"
        /\ sendFailed' = {}
        /\ emitted' = 0
        /\ UNCHANGED <<now, handlerVars, msgLeft, envLeft, sessLog>>
     \/ /\ session
        /\ msgLeft > 0
        /\ envLeft > 0
        /\ msgLeft' = msgLeft - 1
        /\ envLeft' = envLeft - 1
        /\ \E payload \in Payloads :
             LET act == handleCommand(mqttCallback(payload)) IN
               /\ inMsg' = <<payload>>
               /\ sessLog' = Note(sessLog, "dispatch", act.kind)
               /\ IF act.kind = "send"
                  THEN /\ irLog' = <<act.code>>
                       /\ now' = Add32(now, NEC_REPEAT_MS)
                       /\ pubLog' = <<>>
                       /\ lastRes' = "none"
                       /\ sendFailed' = {}
                       /\ emitted' = 0
                       /\ pc' = "c_gap"
                       /\ ret' = "disc"
                       /\ UNCHANGED <<macroTag, preDelayMs, mi>>
                  ELSE IF act.kind = "macro"
                  THEN /\ restoreTo45AndOff(act.tag, MANUAL_DELAY_MS, "disc", <<>>)
                       /\ UNCHANGED now
                  ELSE /\ pubLog' = publishStatus(<<>>, "error:unknown_cmd")
                       /\ lastRes' = GuardedResult(session)
                       /\ sendFailed' \in Failures(1, 1, session)
                       /\ emitted' = Passed(pubLog', session)
                       /\ irLog' = <<>>
                       /\ pc' = "c_end"
                       /\ ret' = "disc"
                       /\ UNCHANGED <<now, macroTag, preDelayMs, mi>>
  /\ UNCHANGED <<envVars, wifiBegun, progVars, discLog, sincePub, sessionNo, bootArmedAt, bootRuns>>
  /\ btnHold' = Held(now')
  /\ UNCHANGED pressRuns
  /\ UNCHANGED wifiTryAt
  /\ UNCHANGED mqttTryAt
  /\ UNCHANGED otaStarts
  /\ UNCHANGED otaServiced
  /\ UNCHANGED linkEverUp

\* sendCmd of a single command, after sendNEC: delay(IR_GAP_MS), publishStatus, delay(1)
CmdGap ==
  /\ pc = "c_gap"
  /\ now' = Add32(now, IR_GAP_MS + YIELD_MS)
  /\ pubLog' = publishStatus(pubLog, "sent:" \o handleCommand(mqttCallback(inMsg[1])).tag)
  /\ lastRes' = GuardedResult(session)
  /\ pc' = "c_end"
  /\ UNCHANGED <<envVars, wifiBegun, handlerVars, progVars, discLog, sincePub, sessionNo,
                 bootArmedAt, bootRuns, envLeft, msgLeft>>
  /\ btnHold' = Held(now')
  /\ UNCHANGED pressRuns
  /\ UNCHANGED wifiTryAt
  /\ UNCHANGED mqttTryAt
  /\ UNCHANGED otaStarts
  /\ UNCHANGED otaServiced
  /\ UNCHANGED linkEverUp
  /\ UNCHANGED sessLog
  /\ sendFailed' \in Failures(Len(pubLog'), Len(pubLog'), session)
  /\ emitted' = emitted + Passed(<<pubLog'[Len(pubLog')]>>, session)

\* handleCommand returns into loop(), after mqtt.loop()
CmdReturn ==
  /\ pc = "c_end"
  /\ UNCHANGED btnHold
  /\ pc' = ret
  /\ ret' = "none"
  /\ inMsg' = <<>>
  /\ irLog' = <<>>
  /\ pubLog' = <<>>
  /\ lastRes' = "none"
  /\ UNCHANGED <<envVars, now, wifiBegun, macroTag, preDelayMs, mi, progVars, discLog,
                 sincePub, sessionNo, bootArmedAt, bootRuns, envLeft, msgLeft>>
  /\ UNCHANGED pressRuns
  /\ UNCHANGED wifiTryAt
  /\ UNCHANGED mqttTryAt
  /\ UNCHANGED otaStarts
  /\ UNCHANGED otaServiced
  /\ UNCHANGED linkEverUp
  /\ UNCHANGED sessLog
  /\ sendFailed' = {}
  /\ emitted' = 0

\* if (preDelayMs > 0) waitMsWithYield(preDelayMs)
MacroPre_PollsButton ==
  /\ pc = "m_pre"
  /\ now' = Add32(now, waitMsWithYield(preDelayMs))
  /\ pc' = "m_send"
  /\ lastBtnChangeMs' = now'
  /\ lastBtnState' = btnLevel
  /\ btnHold' = Held(now')
  /\ UNCHANGED <<envVars, wifiBegun, handlerVars, lastWifiAttemptMs, lastMqttAttemptMs,
                 discoveryPublished, otaStarted, bootRestoreScheduled, bootRestoreAtMs,
                 pubLog, lastRes, discLog, sincePub, sessionNo, bootArmedAt, bootRuns,
                 envLeft, msgLeft, pressRuns, wifiTryAt, mqttTryAt, otaStarts, otaServiced,
                 linkEverUp, sessLog, sendFailed, emitted>>

MacroPre ==
  /\ pc = "m_pre"
  /\ now' = Add32(now, waitMsWithYield(preDelayMs))
  /\ pc' = "m_send"
  /\ UNCHANGED <<envVars, wifiBegun, handlerVars, progVars, pubLog, lastRes, discLog, sincePub, sessionNo,
                 bootArmedAt, bootRuns, envLeft, msgLeft>>
  /\ btnHold' = Held(now')
  /\ UNCHANGED pressRuns
  /\ UNCHANGED wifiTryAt
  /\ UNCHANGED mqttTryAt
  /\ UNCHANGED otaStarts
  /\ UNCHANGED otaServiced
  /\ UNCHANGED linkEverUp
  /\ UNCHANGED sessLog
  /\ UNCHANGED sendFailed
  /\ UNCHANGED emitted

MacroSend_AbortsOffline ==
  /\ pc = "m_send"
  /\ irLog' = Append(irLog, MacroStep(mi).code)
  /\ now' = Add32(now, NEC_REPEAT_MS + IR_GAP_MS + YIELD_MS
                       + (IF mi > 2 /\ mi <= 2 + TEMP_STEPS_TO_45 THEN YIELD_MS ELSE 0))
  /\ pubLog' = publishStatus(pubLog, "sent:" \o MacroStep(mi).tag)
  /\ lastRes' = GuardedResult(session)
  /\ IF ~session
     THEN mi' = mi /\ pc' = "m_end"
     ELSE IF mi < MacroLen
     THEN mi' = mi + 1 /\ pc' = "m_send"
     ELSE mi' = mi /\ pc' = "m_done"
  /\ UNCHANGED <<envVars, wifiBegun, ret, macroTag, preDelayMs, inMsg, progVars,
                 discLog, sincePub, sessionNo, bootArmedAt, bootRuns, envLeft, msgLeft>>
  /\ btnHold' = Held(now')
  /\ UNCHANGED pressRuns
  /\ UNCHANGED wifiTryAt
  /\ UNCHANGED mqttTryAt
  /\ UNCHANGED otaStarts
  /\ UNCHANGED otaServiced
  /\ UNCHANGED linkEverUp
  /\ UNCHANGED sessLog
  /\ sendFailed' \in Failures(Len(pubLog'), Len(pubLog'), session)
  /\ emitted' = emitted + Passed(<<pubLog'[Len(pubLog')]>>, session)

\* sendCmd of the macro's step mi: sendNEC(code) (two frames, delay(50) between),
\* delay(IR_GAP_MS), publishStatus("sent:<tag>"), delay(1); the temp-up loop adds
\* its own delay(1).  The session state is the one at the publishStatus call.
MacroSend ==
  /\ pc = "m_send"
  /\ irLog' = Append(irLog, MacroStep(mi).code)
  /\ now' = Add32(now, NEC_REPEAT_MS + IR_GAP_MS + YIELD_MS
                       + (IF mi > 2 /\ mi <= 2 + TEMP_STEPS_TO_45 THEN YIELD_MS ELSE 0))
  /\ pubLog' = publishStatus(pubLog, "sent:" \o MacroStep(mi).tag)
  /\ lastRes' = GuardedResult(session)
  /\ IF mi < MacroLen
     THEN mi' = mi + 1 /\ pc' = "m_send"
     ELSE mi' = mi /\ pc' = "m_done"
  /\ UNCHANGED <<envVars, wifiBegun, ret, macroTag, preDelayMs, inMsg, progVars,
                 discLog, sincePub, sessionNo, bootArmedAt, bootRuns, envLeft, msgLeft>>
  /\ btnHold' = Held(now')
  /\ UNCHANGED pressRuns
  /\ UNCHANGED wifiTryAt
  /\ UNCHANGED mqttTryAt
  /\ UNCHANGED otaStarts
  /\ UNCHANGED otaServiced
  /\ UNCHANGED linkEverUp
  /\ UNCHANGED sessLog
  /\ sendFailed' \in Failures(Len(pubLog'), Len(pubLog'), session)
  /\ emitted' = emitted + Passed(<<pubLog'[Len(pubLog')]>>, session)

\* publishStatus("restore:done:<tag>")
MacroDone ==
  /\ pc = "m_done"
  /\ UNCHANGED btnHold
  /\ pubLog' = publishStatus(pubLog, "restore:done:" \o macroTag)
  /\ lastRes' = GuardedResult(session)
  /\ pc' = "m_end"
  /\ UNCHANGED <<envVars, now, wifiBegun, handlerVars, progVars, discLog, sincePub, sessionNo,
                 bootArmedAt, bootRuns, envLeft, msgLeft>>
  /\ UNCHANGED pressRuns
  /\ UNCHANGED wifiTryAt
  /\ UNCHANGED mqttTryAt
  /\ UNCHANGED otaStarts
  /\ UNCHANGED otaServiced
  /\ UNCHANGED linkEverUp
  /\ UNCHANGED sessLog
  /\ sendFailed' \in Failures(Len(pubLog'), Len(pubLog'), session)
  /\ emitted' = emitted + Passed(<<pubLog'[Len(pubLog')]>>, session)

\* restoreTo45AndOff returns to its caller
MacroReturn ==
  /\ pc = "m_end"
  /\ UNCHANGED btnHold
  /\ pc' = ret
  /\ ret' = "none"
  /\ macroTag' = "none"
  /\ preDelayMs' = 0
  /\ mi' = 0
  /\ inMsg' = <<>>
  /\ irLog' = <<>>
  /\ pubLog' = <<>>
  /\ lastRes' = "none"
  /\ UNCHANGED <<envVars, now, wifiBegun, progVars, discLog, sincePub, sessionNo, bootArmedAt,
                 bootRuns, envLeft, msgLeft>>
  /\ UNCHANGED pressRuns
  /\ UNCHANGED wifiTryAt
  /\ UNCHANGED mqttTryAt
  /\ UNCHANGED otaStarts
  /\ UNCHANGED otaServiced
  /\ UNCHANGED linkEverUp
  /\ UNCHANGED sessLog
  /\ sendFailed' = {}
  /\ emitted' = 0

\* discoveryPublished = true, after publishAllDiscovery whose failed sends are in failed
DiscoveryFlagAfterPublish_IfSent(failed) == failed = {}

DiscoveryFlagAfterPublish(failed) == TRUE

\* if (!discoveryPublished)
DiscoveryDue_Always == TRUE

DiscoveryDue == ~discoveryPublished

\* publish HA discovery once per session, then the reset reason and "ready"
LoopDisc ==
  /\ pc = "disc"
  /\ UNCHANGED btnHold
  /\ pc' = "boot"
  /\ IF DiscoveryDue
     THEN /\ pubLog' = publishStatus(
                         publishStatus(publishAllDiscovery(<<>>),
                                       "boot:reset_reason:" \o resetReasonToString(resetReason)),
                         "ready")
          /\ lastRes' = GuardedResult(session)
          /\ sendFailed' \in DiscoveryFailures(Len(DiscoveryIds), Len(pubLog'), session)
          /\ emitted' = Passed(pubLog', session)
          /\ discoveryPublished' = DiscoveryFlagAfterPublish(sendFailed')
          /\ discLog' = discLog \o DiscoveryIds
          /\ sincePub' = IF session THEN "none" ELSE "down"
          /\ sessLog' = sessLog \o pubLog'
          /\ UNCHANGED sessionNo
     ELSE /\ pubLog' = <<>>
          /\ lastRes' = "none"
          /\ sendFailed' = {}
          /\ emitted' = 0
          /\ UNCHANGED <<discoveryPublished, discLog, sincePub, sessionNo, sessLog>>
  /\ UNCHANGED <<envVars, now, wifiBegun, handlerVars, lastBtnState, lastBtnChangeMs,
                 lastWifiAttemptMs, lastMqttAttemptMs, otaStarted, bootRestoreScheduled,
                 bootRestoreAtMs, bootArmedAt, bootRuns, envLeft, msgLeft>>
  /\ UNCHANGED pressRuns
  /\ UNCHANGED wifiTryAt
  /\ UNCHANGED mqttTryAt
  /\ UNCHANGED otaStarts
  /\ UNCHANGED otaServiced
  /\ UNCHANGED linkEverUp

\* bootRestoreScheduled && millis() >= bootRestoreAtMs
BootDue_Early(t) == bootRestoreScheduled /\ t + 1 >= bootRestoreAtMs

BootDue_Unscheduled(t) == t >= bootRestoreAtMs

BootDue(t) == bootRestoreScheduled /\ t >= bootRestoreAtMs

\* the flag's value once the trigger has fired
ScheduledAfterFire_Kept == TRUE

ScheduledAfterFire == FALSE

\* run the scheduled macro after the power-loss delay
LoopBoot ==
  /\ pc = "boot"
  /\ UNCHANGED btnHold
  /\ IF BootDue(now)
     THEN /\ bootRestoreScheduled' = ScheduledAfterFire
          /\ bootRuns' = bootRuns + 1
          /\ sessLog' = Note(sessLog, "macro", "boot_powerloss")
          /\ restoreTo45AndOff("boot_powerloss", 0, "btn",
                               IF session
                               THEN publishStatus(<<>>, "boot:powerloss_restore:run")
                               ELSE <<>>)
          /\ UNCHANGED inMsg
     ELSE /\ pc' = "btn"
          /\ pubLog' = <<>>
          /\ lastRes' = "none"
          /\ sendFailed' = {}
          /\ emitted' = 0
          /\ UNCHANGED <<bootRestoreScheduled, bootRuns, handlerVars, sessLog>>
  /\ UNCHANGED <<envVars, now, wifiBegun, lastBtnState, lastBtnChangeMs, lastWifiAttemptMs,
                 lastMqttAttemptMs, discoveryPublished, otaStarted, bootRestoreAtMs,
                 discLog, sincePub, sessionNo, bootArmedAt, envLeft, msgLeft>>
  /\ UNCHANGED pressRuns
  /\ UNCHANGED wifiTryAt
  /\ UNCHANGED mqttTryAt
  /\ UNCHANGED otaStarts
  /\ UNCHANGED otaServiced
  /\ UNCHANGED linkEverUp

\* pollRestoreButton: cur != lastBtnState && millis() - lastBtnChangeMs > DEBOUNCE_MS
BtnAccept_Level(cur, t) == Sub32(t, lastBtnChangeMs) > DEBOUNCE_MS

BtnAccept(cur, t) == cur /= lastBtnState /\ Sub32(t, lastBtnChangeMs) > DEBOUNCE_MS

LoopBtn ==
  /\ pc = "btn"
  /\ UNCHANGED btnHold
  /\ IF BtnAccept(btnLevel, now)
     THEN /\ lastBtnChangeMs' = now
          /\ lastBtnState' = btnLevel
          /\ IF btnLevel = FALSE
             THEN /\ restoreTo45AndOff("button", MANUAL_DELAY_MS, "delay",
                                       publishStatus(<<>>, "button:restore_pressed"))
                  /\ pressRuns' = pressRuns + 1
                  /\ sessLog' = Note(sessLog, "macro", "button")
                  /\ UNCHANGED inMsg
             ELSE /\ pc' = "delay"
                  /\ pubLog' = <<>>
                  /\ lastRes' = "none"
                  /\ sendFailed' = {}
                  /\ emitted' = 0
                  /\ UNCHANGED <<handlerVars, pressRuns, sessLog>>
     ELSE /\ pc' = "delay"
          /\ pubLog' = <<>>
          /\ lastRes' = "none"
          /\ sendFailed' = {}
          /\ emitted' = 0
          /\ UNCHANGED <<lastBtnChangeMs, lastBtnState, handlerVars, pressRuns, sessLog>>
  /\ UNCHANGED <<envVars, now, wifiBegun, lastWifiAttemptMs, lastMqttAttemptMs,
                 discoveryPublished, otaStarted, bootRestoreScheduled, bootRestoreAtMs,
                 discLog, sincePub, sessionNo, bootArmedAt, bootRuns, envLeft, msgLeft>>
  /\ UNCHANGED wifiTryAt
  /\ UNCHANGED mqttTryAt
  /\ UNCHANGED otaStarts
  /\ UNCHANGED otaServiced
  /\ UNCHANGED linkEverUp

(***************************************************************************)
(* delay(1) at the end of loop(): the iteration has taken at least 1 ms.   *)
(* The next iteration reads the clock just before, at or just after a      *)
(* pending deadline, or IdleMs later.  While the pin differs from the last  *)
(* stable level the iterations in between would poll it, so the next one   *)
(* modelled is no later than the first whose poll can accept the change:   *)
(* right after the delay(1), or when DEBOUNCE_MS have passed since the     *)
(* last accepted transition.                                               *)
(***************************************************************************)
NextInstants ==
  LET wifiAt == Add32(lastWifiAttemptMs, WIFI_RETRY_MS)
      mqttAt == Add32(lastMqttAttemptMs, MQTT_RETRY_MS)
      btnAt  == Add32(lastBtnChangeMs, DEBOUNCE_MS)
      heldAt == Add32(now, DEBOUNCE_MS - btnHold)
      pending == btnLevel /= lastBtnState
      pollBy == IF btnAt + 1 > Add32(now, YIELD_MS) THEN btnAt + 1 ELSE Add32(now, YIELD_MS)
      cand   == {Add32(now, IdleMs)}
                \cup (IF pending THEN {pollBy, heldAt} ELSE {})
                \cup (IF ~link THEN {wifiAt - 1, wifiAt} ELSE {})
                \cup (IF link /\ ~session THEN {mqttAt - 1, mqttAt} ELSE {})
                \cup (IF btnLevel /= lastBtnState THEN {btnAt, btnAt + 1} ELSE {})
                \cup (IF bootRestoreScheduled
                      THEN {bootRestoreAtMs - 1, bootRestoreAtMs} ELSE {})
  IN {t \in cand : t >= now + YIELD_MS /\ (pending => t <= pollBy)}

LoopDelay ==
  /\ pc = "delay"
  /\ now <= MaxTime
  /\ now' \in NextInstants
  /\ pc' = "wifi"
  /\ UNCHANGED <<envVars, wifiBegun, handlerVars, progVars, pubLog, lastRes, discLog, sincePub, sessionNo,
                 bootArmedAt, bootRuns, envLeft, msgLeft>>
  /\ btnHold' = Held(now')
  /\ UNCHANGED pressRuns
  /\ UNCHANGED wifiTryAt
  /\ UNCHANGED mqttTryAt
  /\ UNCHANGED otaStarts
  /\ UNCHANGED linkEverUp
  /\ otaServiced' = FALSE
  /\ UNCHANGED sessLog
  /\ UNCHANGED sendFailed
  /\ UNCHANGED emitted

(***************************************************************************)
(* Environment, while the thread is suspended                              *)
(***************************************************************************)
EnvStep ==
  /\ pc \in SuspendPoints
  /\ envLeft > 0
  /\ envLeft' = envLeft - 1
  /\ UNCHANGED <<resetReason, now, wifiBegun, pc, handlerVars, progVars, irLog, pubLog, lastRes,
                 discLog, bootArmedAt, bootRuns, msgLeft>>

\* the station associates (only after WiFi.begin)
EnvLinkUp ==
  /\ EnvStep
  /\ wifiBegun /\ ~link
  /\ link' = TRUE
  /\ UNCHANGED <<session, btnLevel, sincePub, sessionNo, btnHold>>
  /\ UNCHANGED pressRuns
  /\ UNCHANGED wifiTryAt
  /\ UNCHANGED mqttTryAt
  /\ UNCHANGED otaStarts
  /\ UNCHANGED otaServiced
  /\ linkEverUp' = TRUE
  /\ UNCHANGED sessLog
  /\ UNCHANGED sendFailed
  /\ UNCHANGED emitted

\* the station loses the access point: the broker connection goes with it
EnvLinkDown ==
  /\ EnvStep
  /\ link
  /\ link' = FALSE
  /\ session' = FALSE
  /\ sincePub' = IF sincePub = "none" THEN "down" ELSE sincePub
  /\ UNCHANGED sessionNo
  /\ UNCHANGED <<btnLevel, btnHold>>
  /\ UNCHANGED pressRuns
  /\ UNCHANGED wifiTryAt
  /\ UNCHANGED mqttTryAt
  /\ UNCHANGED otaStarts
  /\ UNCHANGED otaServiced
  /\ UNCHANGED linkEverUp
  /\ UNCHANGED sessLog
  /\ UNCHANGED sendFailed
  /\ UNCHANGED emitted

\* the broker connection is lost
EnvSessionLost ==
  /\ EnvStep
  /\ session
  /\ session' = FALSE
  /\ sincePub' = IF sincePub = "none" THEN "down" ELSE sincePub
  /\ UNCHANGED sessionNo
  /\ UNCHANGED <<link, btnLevel, btnHold>>
  /\ UNCHANGED pressRuns
  /\ UNCHANGED wifiTryAt
  /\ UNCHANGED mqttTryAt
  /\ UNCHANGED otaStarts
  /\ UNCHANGED otaServiced
  /\ UNCHANGED linkEverUp
  /\ UNCHANGED sessLog
  /\ UNCHANGED sendFailed
  /\ UNCHANGED emitted

\* the button pin changes level
EnvButton ==
  /\ EnvStep
  /\ btnLevel' = ~btnLevel
  /\ btnHold' = 0
  /\ pressRuns' = IF btnLevel THEN 0 ELSE pressRuns
  /\ UNCHANGED <<link, session, sincePub, sessionNo>>
  /\ UNCHANGED wifiTryAt
  /\ UNCHANGED mqttTryAt
  /\ UNCHANGED otaStarts
  /\ UNCHANGED otaServiced
  /\ UNCHANGED linkEverUp
  /\ UNCHANGED sessLog
  /\ UNCHANGED sendFailed
  /\ UNCHANGED emitted

Next ==
  \/ Setup
  \/ LoopWifi
  \/ LoopOta
  \/ LoopMqtt
  \/ LoopSess
  \/ CmdGap
  \/ CmdReturn
  \/ MacroPre
  \/ MacroSend
  \/ MacroDone
  \/ MacroReturn
  \/ LoopDisc
  \/ LoopBoot
  \/ LoopBtn
  \/ LoopDelay
  \/ EnvLinkUp
  \/ EnvLinkDown
  \/ EnvSessionLost
  \/ EnvButton

Spec == Init /\ [][Next]_vars

SpecAnyReason == InitAnyReason /\ [][Next]_vars

\* the steps of the sketch's single thread: setup(), then loop() again and again;
\* every delay() returns
Thread ==
  \/ Setup
  \/ LoopWifi
  \/ LoopOta
  \/ LoopMqtt
  \/ LoopSess
  \/ CmdGap
  \/ CmdReturn
  \/ MacroPre
  \/ MacroSend
  \/ MacroDone
  \/ MacroReturn
  \/ LoopDisc
  \/ LoopBoot
  \/ LoopBtn
  \/ LoopDelay

\* the thread keeps running; the environment may or may not act
FairSpec == Spec /\ WF_vars(Thread)

(***************************************************************************)
(* What the documentation promises, stated without the code's operators    *)
(***************************************************************************)
\* README "Supported MQTT commands" / spec section 6: token, status tag, pulse code
Documented ==
  { [tok |-> S_power_toggle,       name |-> "power_toggle",       code |-> IR_POWER_TOGGLE],
    [tok |-> S_power_level,        name |-> "power_level",        code |-> IR_POWER_LEVEL],
    [tok |-> S_oscillation_toggle, name |-> "oscillation_toggle", code |-> IR_OSCILLATION_TOGGLE],
    [tok |-> S_sleep_timer,        name |-> "sleep_timer",        code |-> IR_SLEEP_TIMER],
    [tok |-> S_temp_mode,          name |-> "temp_mode",          code |-> IR_TEMP_MODE],
    [tok |-> S_temp_up,            name |-> "temp_up",            code |-> IR_TEMP_UP],
    [tok |-> S_temp_down,          name |-> "temp_down",          code |-> IR_TEMP_DOWN] }

Status(msg) == [topic |-> "status", msg |-> msg]

Repeat(x, n) == [i \in 1..n |-> x]

IsPrefix(a, b) == Len(a) <= Len(b) /\ a = SubSeq(b, 1, Len(a))

\* 1 power-toggle, 1 temp-mode, n temp-up, 1 power-toggle
ExpectedCodes(n) ==
  <<IR_POWER_TOGGLE, IR_TEMP_MODE>> \o Repeat(IR_TEMP_UP, n) \o <<IR_POWER_TOGGLE>>

\* restore:start:<tag>, the sent:* events in the fixed order, restore:done:<tag>
ExpectedEvents(tag, n) ==
  <<Status("restore:start:" \o tag), Status("sent:power_toggle_on"), Status("sent:temp_mode")>>
  \o Repeat(Status("sent:temp_up"), n)
  \o <<Status("sent:power_toggle_off"), Status("restore:done:" \o tag)>>

SentTags == {"power_toggle_on", "temp_mode", "temp_up", "power_toggle_off"}

IsSent(e) == e.topic = "status" /\ \E t \in SentTags : e.msg = "sent:" \o t

SentCount(log) == Cardinality({i \in 1..Len(log) : IsSent(log[i])})

\* what the trigger published before it called the macro
TriggerPrefix(tag, log) ==
  IF log /= <<>> /\ log[1] \in {Status("boot:powerloss_restore:run"),
                                Status("button:restore_pressed")}
  THEN Tail(log) ELSE log

MacroRunning == macroTag /= "none"

MacroFinished == MacroRunning /\ pc = "m_end"

PowerLoss == {"ESP_RST_POWERON", "ESP_RST_BROWNOUT"}

Handled == IF inMsg = <<>> THEN <<>> ELSE inMsg[1]

(***************************************************************************)
(* C1: one Recovery Macro invocation, whatever its trigger tag and         *)
(* pre-delay, hands the transmitter exactly 1 power-toggle, 1 temp-mode,   *)
(* TEMP_STEPS_TO_45 temp-up and 1 power-toggle, in that order: what it has *)
(* sent so far is always a prefix of that sequence, and it is the whole    *)
(* sequence when the macro ends.                                           *)
(***************************************************************************)
C1_MacroSequence ==
  MacroRunning =>
    LET want == ExpectedCodes(TEMP_STEPS_TO_45) IN
      /\ macroTag \in {"button", "mqtt", "boot_powerloss"}
      /\ IsPrefix(irLog, want)
      /\ pc \in {"m_done", "m_end"} => irLog = want
      /\ Len(want) = TEMP_STEPS_TO_45 + 3

C1_Witness ==
  /\ MacroFinished
  /\ macroTag = "button"
  /\ preDelayMs = MANUAL_DELAY_MS
  /\ irLog = ExpectedCodes(TEMP_STEPS_TO_45)

(***************************************************************************)
(* C2: when the handler of a recognized token T returns, it has made       *)
(* exactly one transmitter call, with T's documented code, and one status  *)
(* call sent:T, and has run no macro; for restore_state it has run exactly *)
(* one macro, tagged mqtt, and nothing else.                               *)
(***************************************************************************)
C2_DispatchRecognized ==
  /\ \A d \in Documented :
       inMsg = <<d.tok>> =>
         /\ pc \in {"c_gap", "c_end"}
         /\ ~MacroRunning
         /\ irLog = <<d.code>>
         /\ pc = "c_gap" => pubLog = <<>>
         /\ pc = "c_end" => pubLog = <<Status("sent:" \o d.name)>>
  /\ inMsg = <<S_restore_state>> =>
         /\ pc \in {"m_pre", "m_send", "m_done", "m_end"}
         /\ macroTag = "mqtt"
         /\ preDelayMs = MANUAL_DELAY_MS
         /\ IsPrefix(irLog, ExpectedCodes(TEMP_STEPS_TO_45))
         /\ IsPrefix(pubLog, ExpectedEvents("mqtt", TEMP_STEPS_TO_45))
         /\ pc = "m_end" => /\ irLog = ExpectedCodes(TEMP_STEPS_TO_45)
                            /\ pubLog = ExpectedEvents("mqtt", TEMP_STEPS_TO_45)

C2_Witness ==
  /\ inMsg = <<S_sleep_timer>>
  /\ pc = "c_end"
  /\ irLog = <<IR_SLEEP_TIMER>>
  /\ pubLog = <<Status("sent:sleep_timer")>>

(***************************************************************************)
(* C3: a token that is none of the eight (the empty string included) has   *)
(* one effect: the status call error:unknown_cmd.  No transmission, no     *)
(* macro, and the dispatching step changes no supervisor state.            *)
(***************************************************************************)
Unrecognized(p) == mqttCallback(p) \notin Tokens

C3_UnknownState ==
  (inMsg /= <<>> /\ Unrecognized(Handled)) =>
    /\ pc = "c_end"
    /\ irLog = <<>>
    /\ ~MacroRunning
    /\ pubLog = <<Status("error:unknown_cmd")>>

C3_UnknownStep ==
  (inMsg = <<>> /\ inMsg' /= <<>> /\ Unrecognized(inMsg'[1])) =>
    UNCHANGED <<progVars, wifiBegun, link, session, btnLevel, now, macroTag>>

C3_UnknownCommand == []C3_UnknownState /\ [][C3_UnknownStep]_vars

C3_Witness ==
  /\ inMsg = <<<<>>>>
  /\ pc = "c_end"
  /\ pubLog = <<Status("error:unknown_cmd")>>

(***************************************************************************)
(* C4: after setup() the boot trigger is, or has been, armed exactly when  *)
(* the reset reason is power-on or brownout; with any other reason it is   *)
(* not armed and no boot_powerloss macro runs in that boot.                *)
(***************************************************************************)
C4_ArmedIffPowerLoss ==
  pc /= "setup" =>
    /\ (bootRestoreScheduled \/ bootRuns > 0) <=> resetReason \in PowerLoss
    /\ (pc = "wifi" /\ now = bootArmedAt) =>
         (bootRestoreScheduled <=> resetReason \in PowerLoss)
    /\ resetReason \notin PowerLoss =>
         /\ ~bootRestoreScheduled
         /\ bootRuns = 0
         /\ macroTag /= "boot_powerloss"

C4_Witness ==
  /\ resetReason = "ESP_RST_BROWNOUT"
  /\ pc = "wifi"
  /\ now = bootArmedAt
  /\ bootRestoreScheduled

(***************************************************************************)
(* C5: the trigger fires at most once per boot.  Firing clears the flag,   *)
(* no step after setup() sets it again, and once an armed trigger is       *)
(* cleared the boot_powerloss macro has run exactly once.                  *)
(***************************************************************************)
C5_FiredState ==
  /\ bootRuns <= 1
  /\ bootRestoreScheduled => bootRuns = 0
  /\ macroTag = "boot_powerloss" => (bootRuns = 1 /\ ~bootRestoreScheduled)
  /\ (pc /= "setup" /\ resetReason \in PowerLoss /\ ~bootRestoreScheduled) => bootRuns = 1

C5_FiredStep ==
  /\ (pc /= "setup" /\ ~bootRestoreScheduled) => ~bootRestoreScheduled'
  /\ bootRuns' /= bootRuns =>
       (bootRestoreScheduled /\ ~bootRestoreScheduled' /\ macroTag' = "boot_powerloss")
  /\ (macroTag /= "boot_powerloss" /\ macroTag' = "boot_powerloss") => bootRuns' = bootRuns + 1

C5_FiresOnce == []C5_FiredState /\ [][C5_FiredStep]_vars

C5_Witness ==
  /\ bootRuns = 1
  /\ ~bootRestoreScheduled
  /\ macroTag = "button"
  /\ now > bootRestoreAtMs

(***************************************************************************)
(* C6: after a brownout reset, with t the time since setup() armed the     *)
(* trigger: fire-at is t = BOOT_DELAY_MS (15000); while t <= 14999 the     *)
(* boot macro has not started; the first boot check that reads a clock     *)
(* >= fire-at starts it.                                                   *)
(***************************************************************************)
SinceArmed == Sub32(now, bootArmedAt)

C6_BrownoutState ==
  (resetReason = "ESP_RST_BROWNOUT" /\ pc /= "setup") =>
    /\ BOOT_DELAY_MS = 15000
    /\ Sub32(bootRestoreAtMs, bootArmedAt) = 15000
    /\ bootRuns = 0 => bootRestoreScheduled
    /\ SinceArmed <= 14999 =>
         (bootRuns = 0 /\ bootRestoreScheduled /\ macroTag /= "boot_powerloss")

C6_BrownoutStep ==
  (resetReason = "ESP_RST_BROWNOUT" /\ pc = "boot" /\ bootRestoreScheduled) =>
    IF SinceArmed >= 15000
    THEN macroTag' = "boot_powerloss" /\ pc' = "m_send" /\ now' = now
    ELSE macroTag' = "none" /\ pc' = "btn" /\ bootRestoreScheduled'

C6_BootDelay == []C6_BrownoutState /\ [][C6_BrownoutStep]_vars

C6_Witness ==
  /\ resetReason = "ESP_RST_BROWNOUT"
  /\ macroTag = "boot_powerloss"
  /\ pc = "m_send" /\ mi = 1 /\ irLog = <<>>
  /\ SinceArmed = 15000

(***************************************************************************)
(* C7 as stated: the finished boot macro has made the status calls         *)
(* restore:start:boot_powerloss, 22 sent:*, restore:done:boot_powerloss.   *)
(***************************************************************************)
C7_Original ==
  (MacroFinished /\ macroTag = "boot_powerloss") =>
    LET ev == TriggerPrefix(macroTag, pubLog) IN
      /\ ev[1] = Status("restore:start:boot_powerloss")
      /\ ev[Len(ev)] = Status("restore:done:boot_powerloss")
      /\ SentCount(ev) = 22
      /\ Len(ev) = 22 + 2

(***************************************************************************)
(* C7 amended: with 20 configured temp-up steps the finished boot macro    *)
(* has made the status calls restore:start:boot_powerloss, then 23 sent:*  *)
(* (power_toggle_on, temp_mode, 20 temp_up, power_toggle_off), then        *)
(* restore:done:boot_powerloss.                                            *)
(***************************************************************************)
C7_BootMacroEvents ==
  (MacroRunning /\ macroTag = "boot_powerloss") =>
    LET ev == TriggerPrefix(macroTag, pubLog) IN
      /\ TEMP_STEPS_TO_45 = 20
      /\ IsPrefix(ev, ExpectedEvents("boot_powerloss", 20))
      /\ pc = "m_end" =>
           /\ ev = ExpectedEvents("boot_powerloss", 20)
           /\ SentCount(ev) = 23
           /\ Len(ev) = 25

C7_Witness ==
  /\ MacroFinished
  /\ macroTag = "boot_powerloss"
  /\ SentCount(pubLog) = 23
  /\ pubLog[Len(pubLog)] = Status("restore:done:boot_powerloss")

(***************************************************************************)
(* C8: a payload that differs from a recognized token only by case or by   *)
(* surrounding whitespace has the token's effect; "  Temp_Up  " gives one  *)
(* temp-up transmission, one sent:temp_up and no macro.                    *)
(***************************************************************************)
SameLetter(c, d) ==
  c = d \/ \E i \in 1..Len(UpperChars) : c = UpperChars[i] /\ d = LowerChars[i]

\* p is tok in some casing, between two runs of whitespace
VariantOf(p, tok) ==
  \E a \in 0..Len(p) :
    /\ a + Len(tok) <= Len(p)
    /\ \A i \in 1..a : p[i] \in {" ", "\t", "\n", "\r", "\f"}
    /\ \A i \in 1..Len(tok) : SameLetter(p[a + i], tok[i])
    /\ \A i \in (a + Len(tok) + 1)..Len(p) : p[i] \in {" ", "\t", "\n", "\r", "\f"}

C8_Normalized ==
  inMsg /= <<>> =>
    /\ \A d \in Documented :
         VariantOf(Handled, d.tok) =>
           /\ pc \in {"c_gap", "c_end"}
           /\ ~MacroRunning
           /\ irLog = <<d.code>>
           /\ pc = "c_end" => pubLog = <<Status("sent:" \o d.name)>>
    /\ VariantOf(Handled, S_restore_state) =>
           /\ macroTag = "mqtt"
           /\ pc \in {"m_pre", "m_send", "m_done", "m_end"}

C8_Witness ==
  /\ inMsg = <<<<" ", " ", "T", "e", "m", "p", "_", "U", "p", " ", " ">>>>
  /\ pc = "c_end"
  /\ irLog = <<IR_TEMP_UP>>
  /\ pubLog = <<Status("sent:temp_up")>>
  /\ ~MacroRunning

(***************************************************************************)
(* C9: the discovery set is published at most once per session: a          *)
(* publication happens only after the session has been down and connected *)
(* again since the previous one, and every successful connect is followed, *)
(* in the same loop() iteration, by a publication.                         *)
(***************************************************************************)
C9_OncePerSessionState ==
  /\ discLog \in {<<>>, DiscoveryIds}
  /\ sincePub = "reconn" => (pc \in {"sess", "disc"} \/ ret = "disc")
  /\ (sessionNo > 0 /\ discLog = <<>>) => sincePub = "reconn"

C9_OncePerSessionStep ==
  /\ (discLog' /= discLog /\ discLog' /= <<>>) => (sincePub = "reconn" /\ discLog = <<>>)
  /\ (~session /\ session') => (sincePub = "down" /\ sincePub' = "reconn" /\ discLog' = <<>>)

C9_DiscoveryOncePerSession == []C9_OncePerSessionState /\ [][C9_OncePerSessionStep]_vars

C9_Witness ==
  /\ sessionNo = 2
  /\ pc = "boot"
  /\ discLog = DiscoveryIds
  /\ Len(pubLog) = 12

(***************************************************************************)
(* C10: discoveryPublished is false right after every successful connect,  *)
(* and it is true only when the nine descriptors (status sensor, eight     *)
(* buttons) have been published since that connect.                        *)
(***************************************************************************)
C10_FlagState == discoveryPublished => discLog = DiscoveryIds

C10_FlagStep ==
  /\ (~session /\ session') => ~discoveryPublished'
  /\ (~discoveryPublished /\ discoveryPublished') =>
       /\ discLog' = DiscoveryIds
       /\ Len(DiscoveryIds) = 9
       /\ \A i \in 1..9 : pubLog'[i] = [topic |-> "discovery", msg |-> DiscoveryIds[i]]

C10_DiscoveryFlag == []C10_FlagState /\ [][C10_FlagStep]_vars

C10_Witness ==
  /\ sessionNo = 2
  /\ session
  /\ ~discoveryPublished
  /\ pc = "sess"

(***************************************************************************)
(* C11 as stated: the poll accepts a level change, and starts the button   *)
(* macro, only when the pin has held the new level for at least            *)
(* DEBOUNCE_MS; a press shorter than that is never accepted.               *)
(***************************************************************************)
C11_AcceptStep ==
  /\ lastBtnState' /= lastBtnState => btnHold >= DEBOUNCE_MS
  /\ (macroTag /= "button" /\ macroTag' = "button") => btnHold >= DEBOUNCE_MS

C11_HeldBeforeAccept == [][C11_AcceptStep]_vars

\* the button macro starts on a press that has lasted less than DEBOUNCE_MS
C11_Witness ==
  /\ pc = "m_pre"
  /\ macroTag = "button"
  /\ btnLevel = FALSE
  /\ lastBtnState = FALSE
  /\ lastBtnChangeMs = now
  /\ btnHold < DEBOUNCE_MS

(***************************************************************************)
(* C12 as stated: a press that lasts at least DEBOUNCE_MS has started      *)
(* exactly one button macro, with the manual pre-delay, by the time the    *)
(* pin is released (never zero, never two); a release starts no macro.     *)
(***************************************************************************)
C12_ReleaseStarts == (~lastBtnState /\ lastBtnState') => (macroTag' = "none" /\ pc' = "delay")

C12_OriginalStep ==
  /\ (~btnLevel /\ btnLevel' /\ btnHold >= DEBOUNCE_MS) => pressRuns = 1
  /\ pressRuns' <= 1
  /\ (macroTag /= "button" /\ macroTag' = "button") => preDelayMs' = MANUAL_DELAY_MS
  /\ C12_ReleaseStarts

C12_PressState ==
  /\ pressRuns <= 1
  /\ macroTag = "button" => (preDelayMs = MANUAL_DELAY_MS /\ ~lastBtnState)

C12_PressStep ==
  /\ (pc = "btn" /\ ~btnLevel /\ lastBtnState /\ Sub32(now, lastBtnChangeMs) > DEBOUNCE_MS)
       => (macroTag' = "button" /\ preDelayMs' = MANUAL_DELAY_MS /\ pressRuns' = 1)
  /\ (macroTag /= "button" /\ macroTag' = "button")
       => (pc = "btn" /\ ~btnLevel /\ lastBtnState /\ ~lastBtnState' /\ pressRuns = 0)
  /\ C12_ReleaseStarts

C13_StampState ==
  /\ wifiTryAt >= 0 => lastWifiAttemptMs = wifiTryAt
  /\ mqttTryAt >= 0 => lastMqttAttemptMs = mqttTryAt

C13_SpacingStep ==
  /\ wifiTryAt' /= wifiTryAt =>
       /\ wifiTryAt' = now' /\ lastWifiAttemptMs' = now'
       /\ wifiTryAt >= 0 => Sub32(wifiTryAt', wifiTryAt) >= WIFI_RETRY_MS
  /\ mqttTryAt' /= mqttTryAt =>
       /\ mqttTryAt' = now' /\ lastMqttAttemptMs' = now'
       /\ mqttTryAt >= 0 => Sub32(mqttTryAt', mqttTryAt) >= MQTT_RETRY_MS

C13_RateLimited == []C13_StampState /\ [][C13_SpacingStep]_vars

\* the second WiFi.begin, exactly WIFI_RETRY_MS after the first (which is made at
\* millis() = WIFI_RETRY_MS at the earliest), the link still down
C13_Witness ==
  /\ pc = "ota"
  /\ ~link
  /\ wifiTryAt = now
  /\ lastWifiAttemptMs = now
  /\ now = 2 * WIFI_RETRY_MS

(***************************************************************************)
(* C14: a failed or missing connection never stops the retries.  Whenever  *)
(* the link step runs with the link down and the cooldown over, it makes   *)
(* an attempt, whatever the number of earlier failures; the same for the  *)
(* session step with the link up and the session down.  While the link    *)
(* stays down a further WiFi.begin follows, and while the link is up and   *)
(* the session down a further mqtt.connect follows (checked from every     *)
(* state that leaves RetryRoom before the end of the modelled time).       *)
(***************************************************************************)
\* two macro runs fit between a state this early and MaxTime
RetryRoom == 12000

C14_DueStep ==
  /\ (pc = "wifi" /\ ~link /\ Sub32(now, lastWifiAttemptMs) >= WIFI_RETRY_MS)
       => (wifiTryAt' = now /\ pc' = "ota")
  /\ (pc = "mqtt" /\ link /\ ~session /\ Sub32(now, lastMqttAttemptMs) >= MQTT_RETRY_MS)
       => (mqttTryAt' = now /\ pc' = "sess")

C14_LinkRetry ==
  (~link /\ pc = "mqtt" /\ now + RetryRoom <= MaxTime)
    ~> (link \/ (pc = "ota" /\ wifiTryAt = now))

C14_SessionRetry ==
  (link /\ ~session /\ pc = "boot" /\ now + RetryRoom <= MaxTime)
    ~> (~link \/ session \/ (pc = "sess" /\ mqttTryAt = now))

C14_RetriesNeverStop == [][C14_DueStep]_vars /\ C14_LinkRetry /\ C14_SessionRetry

\* the third WiFi.begin of a boot in which the link has never come up: the polls
\* at each cooldown made the first two at WIFI_RETRY_MS and 2 * WIFI_RETRY_MS
C14_Witness ==
  /\ pc = "ota"
  /\ ~link
  /\ envLeft = MaxEnv
  /\ wifiTryAt = now
  /\ now = 3 * WIFI_RETRY_MS

(***************************************************************************)
(* C15: from restore:start to restore:done the macro has the thread to     *)
(* itself: no command is dispatched, no other macro starts, there is no    *)
(* connect attempt, discovery publication, button poll or boot-trigger     *)
(* check, and the only transmissions and status events are the macro's.    *)
(***************************************************************************)
MacroPcs == {"m_pre", "m_send", "m_done", "m_end"}

C15_WindowState ==
  MacroRunning =>
    /\ pc \in MacroPcs
    /\ IsPrefix(irLog, ExpectedCodes(TEMP_STEPS_TO_45))
    /\ IsPrefix(TriggerPrefix(macroTag, pubLog), ExpectedEvents(macroTag, TEMP_STEPS_TO_45))

C15_WindowStep ==
  (MacroRunning /\ pc /= "m_end") =>
    /\ macroTag' = macroTag /\ preDelayMs' = preDelayMs /\ inMsg' = inMsg /\ ret' = ret
    /\ UNCHANGED <<progVars, wifiBegun, wifiTryAt, mqttTryAt, discLog, sessionNo, bootRuns,
                   msgLeft, sessLog, otaStarts>>
    /\ pressRuns' <= pressRuns
    /\ irLog' = irLog \/ (Len(irLog) < MacroLen /\ irLog' = Append(irLog, MacroStep(Len(irLog) + 1).code))
    /\ pubLog' = pubLog
         \/ \E n \in SentTags : pubLog' = Append(pubLog, Status("sent:" \o n))
         \/ pubLog' = Append(pubLog, Status("restore:done:" \o macroTag))

C15_MacroSerialized == []C15_WindowState /\ [][C15_WindowStep]_vars

\* an mqtt-triggered macro in its temp-up phase while the boot trigger has become
\* due: the trigger is not looked at before the macro ends
C15_Witness ==
  /\ macroTag = "mqtt"
  /\ pc = "m_send" /\ mi > 10
  /\ bootRestoreScheduled /\ now >= bootRestoreAtMs
  /\ bootRuns = 0

(***************************************************************************)
(* C16: setupOTA() is called at most once per boot, by the first loop()    *)
(* iteration that reads the link as up: never before the link has been up, *)
(* never again after a link drop; from then on ArduinoOTA.handle() is      *)
(* called in every iteration, with or without a session.                   *)
(***************************************************************************)
C16_OtaState ==
  /\ otaStarts <= 1
  /\ otaStarted <=> otaStarts = 1
  /\ otaStarted => linkEverUp
  /\ otaServiced => otaStarted
  /\ (otaStarted /\ pc \notin {"setup", "wifi", "ota"}) => otaServiced

C16_OtaStep ==
  /\ (pc = "ota" /\ link) => (otaStarted' /\ otaServiced')
  /\ (pc = "ota" /\ ~link) => (otaStarted' = otaStarted /\ otaServiced' = otaStarted)
  /\ otaStarted => (otaStarted' /\ otaStarts' = otaStarts)
  /\ otaStarts' /= otaStarts => (pc = "ota" /\ link /\ ~otaStarted /\ otaStarts' = 1)

C16_OtaOnce == []C16_OtaState /\ [][C16_OtaStep]_vars

\* OTA was started while the link was up; the link has dropped since, and this
\* iteration has serviced OTA without starting it again, with no session
C16_Witness ==
  /\ pc = "mqtt"
  /\ ~link /\ ~session /\ linkEverUp
  /\ otaStarted /\ otaStarts = 1 /\ otaServiced

(***************************************************************************)
(* C17: nothing cancels a started macro or command: after                  *)
(* restore:start:<tag> the macro keeps its tag, sends all N+3 codes,       *)
(* publishes restore:done:<tag> and returns to loop() with no macro        *)
(* running; a started single command reaches its sent:<tag> and returns    *)
(* too; all this whatever the trigger, the pre-delay and the connectivity. *)
(***************************************************************************)
LoopPcs == {"wifi", "ota", "mqtt", "sess", "disc", "boot", "btn", "delay"}

C17_EndState ==
  /\ (pc \in MacroPcs) <=> MacroRunning
  /\ (MacroRunning /\ pc \in {"m_done", "m_end"}) =>
        /\ Len(irLog) = MacroLen
        /\ SentCount(pubLog) = MacroLen
        /\ Len(pubLog) >= MacroLen + 1
  /\ MacroFinished =>
        /\ pubLog[Len(pubLog) - MacroLen - 1] = Status("restore:start:" \o macroTag)
        /\ pubLog[Len(pubLog)] = Status("restore:done:" \o macroTag)
  /\ pc = "c_end" =>
        /\ Len(pubLog) = 1
        /\ Len(irLog) = (IF handleCommand(mqttCallback(inMsg[1])).kind = "send" THEN 1 ELSE 0)

C17_NoAbortStep ==
  /\ (MacroRunning /\ pc /= "m_end") => (macroTag' = macroTag /\ ret' = ret /\ mi' >= mi)
  /\ pc = "m_end" => (pc' = ret /\ macroTag' = "none")
  /\ pc = "c_gap" => (pc' \in {"c_gap", "c_end"} /\ irLog' = irLog /\ inMsg' = inMsg /\ ret' = ret)
  /\ pc = "c_end" => pc' = ret

C17_MacroEnds == (MacroRunning /\ pc /= "m_end") ~> MacroFinished

C17_ControlReturns ==
  (pc \in {"m_end", "c_gap", "c_end"}) ~> (pc \in LoopPcs /\ ~MacroRunning)

C17_RunsToCompletion ==
  /\ []C17_EndState
  /\ [][C17_NoAbortStep]_vars
  /\ C17_MacroEnds
  /\ C17_ControlReturns

\* the boot macro has finished although the session it started under is gone
C17_Witness ==
  /\ MacroFinished
  /\ macroTag = "boot_powerloss"
  /\ sessionNo >= 1 /\ ~session
  /\ Len(irLog) = MacroLen
  /\ pubLog[Len(pubLog)] = Status("restore:done:boot_powerloss")

(***************************************************************************)
(* C18: mqtt.connect is called only by a session step that reads the link  *)
(* as up; while the link is down no step calls it, no session is opened    *)
(* and lastMqttAttemptMs keeps its value.                                  *)
(***************************************************************************)
C18_AttemptMade ==
  \/ mqttTryAt' /= mqttTryAt
  \/ lastMqttAttemptMs' /= lastMqttAttemptMs
  \/ sessionNo' /= sessionNo
  \/ (~session /\ session')

C18_AttemptStep ==
  /\ C18_AttemptMade => (pc = "mqtt" /\ link /\ ~session /\ mqttTryAt' = now)
  /\ ~link => ~C18_AttemptMade

C18_AttemptState ==
  /\ mqttTryAt >= 0 => (linkEverUp /\ lastMqttAttemptMs = mqttTryAt)
  /\ mqttTryAt < 0 => (lastMqttAttemptMs = 0 /\ sessionNo = 0 /\ ~session)

C18_OnlyWithLink == []C18_AttemptState /\ [][C18_AttemptStep]_vars

\* a session step has just run with the link down, no session and the cooldown
\* of an earlier failed attempt over, and has left the attempt time alone
C18_Witness ==
  /\ pc = "sess"
  /\ ~link /\ ~session /\ sessionNo = 0
  /\ mqttTryAt >= 0
  /\ lastMqttAttemptMs = mqttTryAt
  /\ Sub32(now, lastMqttAttemptMs) >= MQTT_RETRY_MS

(***************************************************************************)
(* C19: the calls of a session come in this order: subscribe to the        *)
(* command topic, availability online, status online; then nothing but     *)
(* payloads handed to the callback; then the nine descriptors, followed    *)
(* at once by discovery:published, boot:reset_reason:<reason> and ready,   *)
(* with no dispatch and no macro inside that block.                        *)
(***************************************************************************)
C19_Online ==
  <<[topic |-> "subscribe", msg |-> "cmd"],
    [topic |-> "availability", msg |-> "online"],
    Status("online")>>

C19_Block ==
  [i \in 1..Len(DiscoveryIds) |-> [topic |-> "discovery", msg |-> DiscoveryIds[i]]]
  \o <<Status("discovery:published"),
       Status("boot:reset_reason:" \o resetReasonToString(resetReason)),
       Status("ready")>>

C19_Announced(e) == e.topic = "discovery" \/ e \in {C19_Block[i] : i \in 1..Len(C19_Block)}

C19_Ordered ==
  /\ sessionNo = 0 => sessLog = <<>>
  /\ sessionNo > 0 => IsPrefix(C19_Online, sessLog)
  /\ discLog = <<>> => \A i \in 1..Len(sessLog) : ~C19_Announced(sessLog[i])
  /\ discLog /= <<>> =>
        \E k \in (Len(C19_Online) + 1)..Len(sessLog) :
          /\ k + Len(C19_Block) - 1 <= Len(sessLog)
          /\ SubSeq(sessLog, k, k + Len(C19_Block) - 1) = C19_Block
          /\ \A i \in (Len(C19_Online) + 1)..(k - 1) : sessLog[i].topic = "dispatch"
          /\ \A i \in (k + Len(C19_Block))..Len(sessLog) :
                sessLog[i].topic \in {"dispatch", "macro"}

\* a session in which a payload was dispatched between the online announcement
\* and the discovery publication, now past ready
C19_Witness ==
  /\ pc = "boot"
  /\ session
  /\ Len(sessLog) = Len(C19_Online) + 1 + Len(C19_Block)
  /\ sessLog[Len(C19_Online) + 1].topic = "dispatch"
  /\ sessLog[Len(sessLog)] = Status("ready")

(***************************************************************************)
(* C20: a sub-step of loop() taken in its target state changes nothing:    *)
(* the link step with the link up, the session step with a session, the    *)
(* discovery step with the flag set, the OTA step with OTA started, the    *)
(* boot check when not scheduled or not yet due, the button poll when the  *)
(* pin reads the last stable level.  The statics keep their values, no     *)
(* WiFi.begin, mqtt.connect or setupOTA is called, nothing is published,   *)
(* nothing is sent, no macro starts and no time passes, each time the      *)
(* sub-step is taken.                                                      *)
(***************************************************************************)
C20_Nothing ==
  /\ progVars' = progVars
  /\ <<wifiBegun', wifiTryAt', mqttTryAt', otaStarts'>> =
       <<wifiBegun, wifiTryAt, mqttTryAt, otaStarts>>
  /\ <<session', sessionNo', sessLog', discLog'>> = <<session, sessionNo, sessLog, discLog>>
  /\ <<bootRuns', pressRuns'>> = <<bootRuns, pressRuns>>
  /\ pubLog' = <<>> /\ lastRes' \in {"none", lastRes}
  /\ irLog' = <<>> /\ macroTag' = "none" /\ inMsg' = <<>>
  /\ now' = now
  /\ pc' \in LoopPcs

C20_IdempotentStep ==
  /\ (pc = "wifi" /\ link) => C20_Nothing
  /\ (pc = "mqtt" /\ session) => C20_Nothing
  /\ (pc = "disc" /\ discoveryPublished) => C20_Nothing
  /\ (pc = "ota" /\ otaStarted) => C20_Nothing
  /\ (pc = "boot" /\ (~bootRestoreScheduled \/ now < bootRestoreAtMs)) => C20_Nothing
  /\ (pc = "btn" /\ btnLevel = lastBtnState) => C20_Nothing

C20_Idempotent == [][C20_IdempotentStep]_vars

\* the end of an iteration in which all six sub-steps were in their target
\* state, at least IdleMs after the session was opened and announced
C20_Witness ==
  /\ pc = "delay"
  /\ link /\ session /\ discoveryPublished /\ otaStarted
  /\ ~bootRestoreScheduled
  /\ btnLevel = lastBtnState
  /\ sessLog = C19_Online \o C19_Block
  /\ pubLog = <<>>
  /\ now >= mqttTryAt + IdleMs

(***************************************************************************)
(* C21: a publish whose mqtt.publish returned false is not repeated and    *)
(* changes nothing else: each message of a macro, of the online            *)
(* announcement and of the discovery set is handed over once per session   *)
(* whether or not sends failed; discoveryPublished is set after the        *)
(* discovery step even when all its sends failed; and the step after a     *)
(* failed send is the one the code takes after a successful send (the      *)
(* macro goes on with its next code, the handler returns, loop() goes on). *)
(***************************************************************************)
C21_Onlines == {i \in 1..Len(sessLog) : sessLog[i] \in {Status("online"), C19_Online[2]}}

C21_OnceState ==
  /\ sendFailed \subseteq 1..Len(pubLog)
  /\ MacroRunning =>
        /\ SentCount(pubLog) = Len(irLog)
        /\ IsPrefix(TriggerPrefix(macroTag, pubLog), ExpectedEvents(macroTag, TEMP_STEPS_TO_45))
  /\ discLog \in {<<>>, DiscoveryIds}
  /\ discLog = DiscoveryIds => discoveryPublished
  /\ sessionNo > 0 => Cardinality(C21_Onlines) = 2

\* an environment event while the thread is suspended
C21_EnvOnly == UNCHANGED <<pc, progVars, handlerVars, pubLog, sendFailed, sessLog, discLog>>

C21_AfterFailureStep ==
  sendFailed /= {} =>
    \/ C21_EnvOnly
    \/ /\ pc = "m_pre"
       /\ pc' = "m_send" /\ pubLog' = pubLog /\ irLog' = irLog /\ progVars' = progVars
    \/ /\ pc = "m_send"
       /\ irLog' = Append(irLog, MacroStep(mi).code)
       /\ pubLog' = Append(pubLog, Status("sent:" \o MacroStep(mi).tag))
       /\ pc' = (IF mi < MacroLen THEN "m_send" ELSE "m_done")
       /\ progVars' = progVars
    \/ /\ pc = "m_done"
       /\ pubLog' = Append(pubLog, Status("restore:done:" \o macroTag))
       /\ pc' = "m_end" /\ irLog' = irLog /\ progVars' = progVars
    \/ /\ pc \in {"m_end", "c_end"}
       /\ pc' = ret /\ pc' \in LoopPcs /\ macroTag' = "none" /\ progVars' = progVars
    \/ /\ pc = "sess"
       /\ progVars' = progVars
       /\ sessLog' = sessLog \/ \E k \in {"send", "macro", "unknown"} :
                                  sessLog' = Append(sessLog, [topic |-> "dispatch", msg |-> k])
       /\ discLog' = discLog
    \/ /\ pc = "boot"
       /\ discoveryPublished /\ discoveryPublished'
       /\ discLog' = discLog
       /\ pc' \in {"btn", "m_send"}

C21_NoRetry == []C21_OnceState /\ [][C21_AfterFailureStep]_vars

\* the session is up, every send of the discovery step has returned false, and the
\* flag is set
C21_Witness ==
  /\ pc = "boot"
  /\ session
  /\ Len(pubLog) = Len(C19_Block)
  /\ sendFailed = 1..Len(pubLog)
  /\ discoveryPublished
  /\ discLog = DiscoveryIds

(***************************************************************************)
(* C22: the codes go out whatever the connectivity, the status messages    *)
(* only with a session: every macro that reaches its end has sent the full *)
(* code sequence; a call reaches mqtt.publish only if the session is up at *)
(* the call; a macro run without a session (in particular the boot macro   *)
(* of a boot that never had one) hands over none of its restore:start,     *)
(* sent:* and restore:done, and a later connect publishes the online       *)
(* announcement only, nothing kept from before.                            *)
(***************************************************************************)
C22_IrState ==
  /\ MacroRunning => IsPrefix(irLog, ExpectedCodes(TEMP_STEPS_TO_45))
  /\ MacroFinished => irLog = ExpectedCodes(TEMP_STEPS_TO_45)
  /\ MacroRunning => Len(pubLog) >= 1 + Len(irLog)

C22_ReportState ==
  /\ emitted <= Len(pubLog)
  /\ (pc \in MacroPcs \cup {"c_end"} /\ session) => emitted = Len(pubLog)
  /\ (pc \in MacroPcs \cup {"c_end"} /\ sessionNo = 0) => emitted = 0

C22_ReportStep ==
  /\ emitted' > emitted => session'
  /\ (~session /\ ~session') => emitted' \in {emitted, 0}
  /\ (pc = "m_send" /\ pc' /= pc) => irLog' = Append(irLog, MacroStep(mi).code)
  /\ (pc = "m_send" /\ mi' /= mi) => irLog' = Append(irLog, MacroStep(mi).code)
  /\ (~session /\ session') =>
        /\ pubLog' = <<[topic |-> "availability", msg |-> "online"], Status("online")>>
        /\ emitted' = 2

C22_IrNotStatus == [](C22_IrState /\ C22_ReportState) /\ [][C22_ReportStep]_vars

\* the boot macro has run to its end in a boot whose link never came up: all codes
\* sent, twenty-five status calls made, none handed to mqtt.publish
C22_Witness ==
  /\ MacroFinished
  /\ macroTag = "boot_powerloss"
  /\ ~linkEverUp /\ sessionNo = 0
  /\ irLog = ExpectedCodes(TEMP_STEPS_TO_45)
  /\ Len(pubLog) = MacroLen + 2
  /\ emitted = 0

====
